---- MODULE Spec2Model ----
(***************************************************************************)
(* Corvus agent orchestration layer: the ChatSessionManager (the spec's    *)
(* Session Governor and Tool Dispatcher), its provider-adapter stub and    *)
(* the chat CLI's line handler that drives it.                             *)
(*                                                                         *)
(* Text is a sequence of atoms (each atom a literal piece of a string);    *)
(* string concatenation is \o, the empty string is << >>.  Money is        *)
(* counted in units of 10 micro-dollars, the price the manager charges     *)
(* for one reported token ((totalTokens / 1_000_000) * 10 dollars).        *)
(***************************************************************************)
EXTENDS Integers, Sequences, FiniteSets, TLC

\* ------------------------------------------------------------------ bounds
\* Calls to sendMessage / sendMessageStream in one run.
MaxCalls == 2
\* Line handlers the CLI may have in flight at once (asynchronous driver).
MaxInflight == 2
\* Largest per-message estimate of the stub's estimateCost.
MaxEstPerMsg == 1
\* Calls in one run of the asynchronous driver.
MaxAsyncCalls == 2
\* Tool rounds per turn that the stubs ask for in the runs with /load or
\* with the asynchronous driver.
MaxShortRounds == 1
\* clearHistory / loadSession commands in one run of the asynchronous driver.
MaxAsyncResets == 1
\* Deepest nesting of tvl arrays in a tool result given to truncateToolResult.
MaxNest == 2
\* Array items beyond the cap (10 tokens, 5 transactions) in such a result.
MaxExtraItems == 2
\* Times truncateToolResult is applied in a row to one result.
MaxApplications == 2
\* Messages in a history given to an adapter's estimateCost.
MaxHistory == 3
\* Largest content.split(' ').length of one message of such a history.
MaxWords == 3
\* ChatSession objects a caller is handed (getSession) or hands in (loadSession).
MaxHeld == 1

\* ------------------------------------------------------- program constants
DEFAULT_MAX_TURNS == 15
\* 0.50 dollars
DEFAULT_MAX_COST == 50000
maxIterations == 5
\* an option the caller left out (undefined)
Absent == -1

DEFAULT_SYSTEM_PROMPT == <<"You are Corvus, an expert Solana DeFi assistant.">>
CompletionNotice == <<"I completed the requested actions.">>

Procs == 1..MaxInflight

VARIABLES
    config,     \* this.config: maxTurns, maxCostPerSession, systemPrompt
    session,    \* this.session: messages, turnCount, totalCost
    client,     \* this.client: the adapter stub (capabilities and script)
    collab,     \* what the tool collaborators do when called
    turns,      \* per in-flight call: where it is suspended and its locals
    calls,      \* calls started so far
    resets,     \* /clear and /load commands so far (asynchronous driver)
    ev,         \* the step just taken: operation, outcome, state before it
    held        \* the ChatSession object a caller holds (handed out or in)

vars == <<config, session, client, collab, turns, calls, resets, ev, held>>

\* ------------------------------------------------------------------- text
RECURSIVE Flatten(_)
Flatten(ss) == IF ss = << >> THEN << >> ELSE Head(ss) \o Flatten(Tail(ss))

\* a.b.join(sep) over a sequence of texts
RECURSIVE Join(_, _)
Join(ss, sep) ==
    IF ss = << >> THEN << >>
    ELSE IF Len(ss) = 1 THEN ss[1]
    ELSE ss[1] \o sep \o Join(Tail(ss), sep)

\* x || y on strings: undefined and "" are both falsy
OrElse(x, y) == IF x = << >> THEN y ELSE x

IsPrefix(s, t) == Len(s) <= Len(t) /\ SubSeq(t, 1, Len(s)) = s

Msg(r, c) == [role |-> r, content |-> c]
SystemMessage == Msg("system", config.systemPrompt)
UserInput == <<"hi">>

\* ------------------------------------------------- tool results (strings)
\* A collaborator's result string.  kind "json": it parses to an object with
\* the fields truncateToolResult looks at; kind "text": JSON.parse throws.
\* A tvl value is [nest, leaf]: nest >= 1 is a non-empty array whose last
\* element's totalLiquidityUSD is the value [nest - 1, leaf]; nest = 0 is the
\* leaf itself: "absent", "zero", "num", "emptyArr" (an array of length 0) or
\* "nullLast" (a non-empty array whose last element is null).
Tvl(n, l) == [nest |-> n, leaf |-> l]
NoTvl == Tvl(0, "absent")
NoItems == [present |-> FALSE, items |-> << >>]
Items(n) == [present |-> TRUE, items |-> [i \in 1..n |-> i]]
JsonResult(tt, ts, cb, tok, tx, len) ==
    [kind |-> "json", tvl_total |-> tt, tvl_solana |-> ts, chain_breakdown |-> cb,
     tokens |-> tok, transactions |-> tx, truncated |-> << >>, len |-> len,
     marked |-> FALSE]
TextResult(len) ==
    [kind |-> "text", tvl_total |-> NoTvl, tvl_solana |-> NoTvl, chain_breakdown |-> FALSE,
     tokens |-> NoItems, transactions |-> NoItems, truncated |-> << >>, len |-> len,
     marked |-> FALSE]

MaxTextChars == 5000
\* '...[truncated]'.length
MarkerLen == 14
MaxTokenItems == 10
MaxTransactionItems == 5

\* latest.totalLiquidityUSD || 0
LatestOrZero(v) ==
    IF v.nest = 1 /\ v.leaf \in {"absent", "zero"} THEN Tvl(0, "zero")
    ELSE Tvl(v.nest - 1, v.leaf)
\* reading latest.totalLiquidityUSD of a null last element throws
TvlThrows(v) == v.nest = 0 /\ v.leaf = "nullLast"
CollapseTvl(v) == IF v.nest >= 1 THEN LatestOrZero(v) ELSE v

\* the catch branch: result.length > 5000 ? result.slice(0, 5000) + marker : result
\* (the characters kept are the first 5000 of r; of a marked r they are the
\* same 5000 characters again)
TruncateText(r) ==
    IF r.len > MaxTextChars
    THEN [TextResult(MaxTextChars + MarkerLen) EXCEPT !.marked = TRUE]
    ELSE r

CapTokens(d) ==
    IF d.tokens.present /\ Len(d.tokens.items) > MaxTokenItems
    THEN LET kept == SubSeq(d.tokens.items, 1, MaxTokenItems)
         IN  [d EXCEPT !.tokens.items = kept,
                       !.truncated = <<"Showing first 10 of ", ToString(Len(kept)), " tokens">>]
    ELSE d

CapTransactions(d) ==
    IF d.transactions.present /\ Len(d.transactions.items) > MaxTransactionItems
    THEN LET kept == SubSeq(d.transactions.items, 1, MaxTransactionItems)
         IN  [d EXCEPT !.transactions.items = kept,
                       !.truncated = <<"Showing first 5 of ", ToString(Len(kept)), " transactions">>]
    ELSE d

truncateToolResult(r) ==
    IF r.kind = "text" \/ TvlThrows(r.tvl_total) \/ TvlThrows(r.tvl_solana)
    THEN TruncateText(r)
    ELSE CapTransactions(CapTokens(
             [r EXCEPT !.tvl_total = CollapseTvl(r.tvl_total),
                       !.tvl_solana = CollapseTvl(r.tvl_solana),
                       !.chain_breakdown = FALSE]))

\* JSON.stringify(data) / the string itself, as one atom of text
Stringify(r) == <<ToString(r)>>

\* ------------------------------------------------------- tool dispatcher
KnownTools ==
    {"get_sol_balance", "get_token_balances", "get_token_price",
     "get_recent_transactions", "get_protocol_tvl", "get_top_solana_protocols",
     "analyze_wallet_defi_positions", "send_telegram_alert"}

ToolCall(n) == [name |-> n]

\* What a collaborator does: returns a result string, or throws a value.
Returns(r) == [kind |-> "return", value |-> r]
Throws(type, msg) == [kind |-> "throw", thrown |-> type, message |-> msg]

PriceJson == JsonResult(NoTvl, NoTvl, FALSE, NoItems, NoItems, 40)
RawFailure == "connect ECONNREFUSED 127.0.0.1:8899"

\* error.message of the caught value: an Error carries its message, any other
\* non-nullish value has no message property ("undefined" in the template)
MessageOf(o) == IF o.thrown = "Error" THEN o.message ELSE "undefined"

ErrorPayload(text) == <<"{\"error\":\"">> \o text \o <<"\"}">>

\* the collaborator behind a case of the switch: collab says whether it
\* returns its result or which kind of value it throws
Collaborator(name) ==
    LET does == IF name \in DOMAIN collab THEN collab[name] ELSE "returns"
    IN  IF does = "returns" THEN Returns(PriceJson)
        ELSE Throws(does, RawFailure)

\* executeTool: raised = the returned promise rejects; invoked = a collaborator ran
executeTool(toolCall) ==
    IF toolCall.name \notin KnownTools
    THEN [raised |-> FALSE, invoked |-> FALSE,
          value |-> ErrorPayload(<<"Unknown tool: ", toolCall.name>>)]
    ELSE LET o == Collaborator(toolCall.name)
         IN  IF o.kind = "return"
             THEN [raised |-> FALSE, invoked |-> TRUE,
                   value |-> Stringify(truncateToolResult(o.value))]
             ELSE IF o.thrown = "nullish"
             \* catch (error) { ... error.message ... } on null / undefined
             THEN [raised |-> TRUE, invoked |-> TRUE, value |-> << >>]
             ELSE [raised |-> FALSE, invoked |-> TRUE,
                   value |-> ErrorPayload(<<"Tool execution failed: ", MessageOf(o)>>)]

\* -------------------------------------------------- provider adapter stub
Response(c, hasTc, tc, fr, hasU, tok) ==
    [content |-> c, hasToolCalls |-> hasTc, toolCalls |-> tc, finishReason |-> fr,
     hasUsage |-> hasU, totalTokens |-> tok]

\* responses that request tools (toolCalls present)
ToolResponses ==
    [unknown |-> Response(<< >>, TRUE, <<ToolCall("unknown_tool")>>, "tool_use", TRUE, 1),
     pair    |-> Response(<<"Let me check.">>, TRUE,
                          <<ToolCall("get_token_price"), ToolCall("get_sol_balance")>>,
                          "tool_use", FALSE, 0),
     none    |-> Response(<<"Thinking.">>, TRUE, << >>, "stop", TRUE, 1)]

\* responses without toolCalls
FinalResponses ==
    [answer |-> Response(<<"$80", ".50">>, FALSE, << >>, "stop", TRUE, 2),
     empty  |-> Response(<< >>, FALSE, << >>, "stop", FALSE, 0),
     error  |-> Response(<<"Error: ", RawFailure>>, FALSE, << >>, "error", FALSE, 0),
     \* finishReason and toolCalls are independent fields of LLMResponse
     pending |-> Response(<<"One moment.">>, FALSE, << >>, "tool_use", FALSE, 0)]

IsToolResults(m) ==
    m.role = "user" /\ m.content # << >> /\ m.content[1] = "Tool results:\n\n"

\* tool-result messages since the last message the user typed
RECURSIVE RoundsSoFar(_)
RoundsSoFar(msgs) ==
    IF msgs = << >> THEN 0
    ELSE LET m == msgs[Len(msgs)]
             rest == SubSeq(msgs, 1, Len(msgs) - 1)
         IN  IF IsToolResults(m) THEN 1 + RoundsSoFar(rest)
             ELSE IF m.role = "assistant" THEN RoundsSoFar(rest)
             ELSE 0

\* A deterministic stub: the response is a function of the history it is
\* given.  It asks for tools in the first script.rounds rounds of a turn.
StubChat(msgs) ==
    IF RoundsSoFar(msgs) < client.script.rounds
    THEN ToolResponses[client.script.tool]
    ELSE FinalResponses[client.script.final]

\* estimateCost: local, deterministic, grows with the history
estimateCost(msgs) == client.estPerMsg * Len(msgs)

\* ----------------------------------------------------------- the session
\* x || y on numbers: undefined and 0 are both falsy
NumberOrElse(x, y) == IF x = Absent \/ x = 0 THEN y ELSE x

\* this.config of the constructor: "|| 15" and "|| 0.50" give the default to
\* an option that is absent or 0 (given: the options as the caller passed them)
Configure(cfg) ==
    [maxTurns |-> NumberOrElse(cfg.maxTurns, DEFAULT_MAX_TURNS),
     maxCostPerSession |-> NumberOrElse(cfg.maxCostPerSession, DEFAULT_MAX_COST),
     systemPrompt |-> OrElse(cfg.systemPrompt, DEFAULT_SYSTEM_PROMPT),
     given |-> cfg]

NewSession(prompt) ==
    [messages |-> <<Msg("system", prompt)>>, turnCount |-> 0, totalCost |-> 0]

\* (mutant) the history is trimmed to the system message and the last two messages
PushTrimmed(s, m) ==
    LET all == Append(s.messages, m)
    IN  [s EXCEPT !.messages =
            IF Len(all) <= 3 THEN all
            ELSE <<all[1]>> \o SubSeq(all, Len(all) - 1, Len(all))]
\* this.session.messages.push(m)
Push(s, m) == [s EXCEPT !.messages = Append(@, m)]

\* no call is suspended in this slot
IdleTurn == [pc |-> "idle"]

\* the locals of a call before its first statement
BlankTurn ==
    [pc |-> "idle", mode |-> "none", pending |-> FinalResponses.empty,
     response |-> FinalResponses.empty, iterations |-> 0, idx |-> 0,
     toolResults |-> << >>, finalContent |-> << >>, emitted |-> << >>,
     streamPos |-> 0, start |-> NewSession(<< >>),
     chats |-> 0, dispatched |-> 0, allTools |-> TRUE]

Event(op, p, outcome, value, est, t) ==
    [op |-> op, p |-> p, outcome |-> outcome, value |-> value, est |-> est,
     pre |-> session, start |-> t.start, response |-> t.response,
     iterations |-> t.iterations, chats |-> t.chats, dispatched |-> t.dispatched,
     allTools |-> t.allTools]

InFlight == {p \in Procs : turns[p].pc # "idle"}

\* --------------------------------------------------------- turn fragments
ToolNames(r) == Join([i \in 1..Len(r.toolCalls) |-> <<r.toolCalls[i].name>>], <<", ">>)
UsedTools(r) == <<"Used tools: ">> \o ToolNames(r)
ProgressChunk(r) == <<"\nUsing tools: ">> \o ToolNames(r) \o <<"...\n\n">>
ToolResultLine(tc, result) == <<"Tool: ", tc.name, "\nResult: ">> \o result
\* (mutant) the results are listed last first
ToolResultsReversed(results) ==
    Msg("user", <<"Tool results:\n\n">>
                \o Join([i \in 1..Len(results) |-> results[Len(results) + 1 - i]], <<"\n\n">>))
ToolResultsMessage(results) ==
    Msg("user", <<"Tool results:\n\n">> \o Join(results, <<"\n\n">>))

\* (mutant) a response without usage is charged one token
AddCostGuessesUsage(s, r) ==
    [s EXCEPT !.totalCost = @ + (IF r.hasUsage THEN r.totalTokens ELSE 1)]
\* totalCost += (usage.totalTokens / 1_000_000) * 10, when usage is reported
AddCost(s, r) == IF r.hasUsage THEN [s EXCEPT !.totalCost = @ + r.totalTokens] ELSE s

\* (mutant) a provider error is replaced by the completion notice
BufferedFinalHidesErrors(r) ==
    IF r.finishReason = "error" THEN CompletionNotice ELSE OrElse(r.content, CompletionNotice)
\* what sendMessage returns for a last response r
BufferedFinal(r) == OrElse(r.content, CompletionNotice)
\* the content the streaming variant records as the final assistant message
StreamedFinal(t) == OrElse(t.finalContent, OrElse(t.response.content, CompletionNotice))

\* the admission checks shared by sendMessage and sendMessageStream
EstimateFor(x) == estimateCost(Append(session.messages, Msg("user", x)))
\* (mutant) the turn check admits one turn too many
TurnLimitOffByOne == session.turnCount > config.maxTurns
TurnLimitReached == session.turnCount >= config.maxTurns
\* (mutant) the cost ceiling is exclusive
CostLimitExclusive(x) == session.totalCost + EstimateFor(x) >= config.maxCostPerSession
CostLimitReached(x) == session.totalCost + EstimateFor(x) > config.maxCostPerSession

\* (mutant) the turn is admitted without being counted
AdmitUncounted(x, mode) ==
    LET s1 == Push(session, Msg("user", x))
    IN  [s |-> s1,
         t |-> [BlankTurn EXCEPT !.pc = "chat", !.mode = mode, !.start = session,
                                !.pending = StubChat(s1.messages), !.chats = 1]]

\* push the user message, count the turn, call chat
Admit(x, mode) ==
    LET s1 == [Push(session, Msg("user", x)) EXCEPT !.turnCount = @ + 1]
    IN  [s |-> s1,
         t |-> [BlankTurn EXCEPT !.pc = "chat", !.mode = mode, !.start = session,
                                !.pending = StubChat(s1.messages), !.chats = 1]]

\* (mutant) the tool results are recorded before the assistant's tool-use message
FinishRoundResultsFirst(t, results) ==
    LET r  == t.response
        s1 == Push(session, ToolResultsMessage(results))
        s2 == Push(s1, Msg("assistant", OrElse(r.content, UsedTools(r))))
    IN  [s |-> s2,
         t |-> [t EXCEPT !.pc = "chat", !.toolResults = results, !.idx = 0,
                         !.pending = StubChat(s2.messages), !.chats = @ + 1]]

\* end of one tool round: both messages are pushed, chat is called again
FinishRound(t, results) ==
    LET r  == t.response
        s1 == Push(session, Msg("assistant", OrElse(r.content, UsedTools(r))))
        s2 == Push(s1, ToolResultsMessage(results))
    IN  [s |-> s2,
         t |-> [t EXCEPT !.pc = "chat", !.toolResults = results, !.idx = 0,
                         !.pending = StubChat(s2.messages), !.chats = @ + 1]]

\* the for loop over response.toolCalls starts
BeginTools(t) ==
    IF t.response.toolCalls = << >>
    THEN FinishRound(t, << >>)
    ELSE [s |-> session, t |-> [t EXCEPT !.pc = "tool", !.idx = 1, !.toolResults = << >>]]

\* ------------------------------------------------------------ operations
\* The caller awaits each call (sequential) or, like the CLI's async line
\* handler, may start a call while earlier ones are suspended (async).
CanStart(p, async) ==
    /\ calls < (IF async THEN MaxAsyncCalls ELSE MaxCalls)
    /\ turns[p].pc = "idle"
    /\ \A q \in Procs : q < p => turns[q].pc # "idle"
    /\ async \/ InFlight = {}

\* (mutant) the first chat call is made before the ceilings are checked
CallChatsFirst(p, op, mode, async) ==
    /\ CanStart(p, async)
    /\ calls' = calls + 1
    /\ UNCHANGED <<config, client, collab, resets, held>>
    /\ LET a == Admit(UserInput, mode)
       IN  IF TurnLimitReached \/ CostLimitReached(UserInput)
           THEN /\ ev' = Event(op, p, IF TurnLimitReached THEN "turnLimit" ELSE "costLimit",
                               << >>, EstimateFor(UserInput), a.t)
                /\ UNCHANGED <<session, turns>>
           ELSE /\ session' = a.s
                /\ turns' = [turns EXCEPT ![p] = a.t]
                /\ ev' = Event(op, p, "accepted", << >>, EstimateFor(UserInput), a.t)

\* sendMessage / sendMessageStream up to the first await: the admission
\* checks, then the user message, the turn count and the first chat call
Call(p, op, mode, async) ==
    /\ CanStart(p, async)
    /\ calls' = calls + 1
    /\ UNCHANGED <<config, client, collab, resets, held>>
    /\ IF TurnLimitReached
       THEN /\ ev' = Event(op, p, "turnLimit", << >>, 0, BlankTurn)
            /\ UNCHANGED <<session, turns>>
       ELSE IF CostLimitReached(UserInput)
       THEN /\ ev' = Event(op, p, "costLimit", << >>, EstimateFor(UserInput), BlankTurn)
            /\ UNCHANGED <<session, turns>>
       ELSE LET a == Admit(UserInput, mode)
            IN  /\ session' = a.s
                /\ turns' = [turns EXCEPT ![p] = a.t]
                /\ ev' = Event(op, p, "accepted", << >>, EstimateFor(UserInput), a.t)

\* (mutant) sendMessage that suspends between its turn check and its count:
\* the check saw the count without the turns now in flight
SendMessageSuspendsAfterCheck(p, async) ==
    IF TurnLimitReached /\ session.turnCount - Cardinality(InFlight) < config.maxTurns
    THEN /\ CanStart(p, async)
         /\ calls' = calls + 1
         /\ UNCHANGED <<config, client, collab, resets, held>>
         /\ LET a == Admit(UserInput, "buffered")
            IN  /\ session' = a.s
                /\ turns' = [turns EXCEPT ![p] = a.t]
                /\ ev' = Event("sendMessage", p, "accepted", << >>,
                               EstimateFor(UserInput), a.t)
    ELSE Call(p, "sendMessage", "buffered", async)
SendMessage(p, async) == Call(p, "sendMessage", "buffered", async)
SendMessageStream(p, async) == Call(p, "sendMessageStream", "stream", async)

Continue(p, op, st) ==
    /\ session' = st.s
    /\ turns' = [turns EXCEPT ![p] = st.t]
    /\ ev' = Event(op, p, "step", << >>, 0, st.t)

Finish(p, op, outcome, value, s1, t) ==
    /\ session' = s1
    /\ turns' = [turns EXCEPT ![p] = IdleTurn]
    /\ ev' = Event(op, p, outcome, value, 0, t)

OpOf(t) == IF t.mode = "stream" THEN "sendMessageStream" ELSE "sendMessage"

\* (mutant) the finish reason is not looked at
CanStreamIgnoresFinish(r) == client.supportsStreaming /\ client.hasStreamChat
CanStream(r) ==
    client.supportsStreaming /\ client.hasStreamChat /\ r.finishReason # "tool_use"

\* (mutant) the ceiling is tested with <=
LoopContinuesOneMore(r, iterations) == r.hasToolCalls /\ iterations <= maxIterations
\* while (response.toolCalls && iterations < maxIterations)
LoopContinues(r, iterations) == r.hasToolCalls /\ iterations < maxIterations

\* the awaited chat call returns: the while test, then a tool round or the end
ChatReturns(p) ==
    LET t0 == turns[p]
        r  == t0.pending
        t  == [t0 EXCEPT !.response = r,
                         !.allTools = @ /\ r.hasToolCalls /\ r.toolCalls # << >>]
    IN  /\ t0.pc = "chat"
        /\ UNCHANGED <<config, client, collab, calls, resets, held>>
        /\ IF LoopContinues(r, t.iterations)
           THEN LET t1 == [t EXCEPT !.iterations = @ + 1]
                IN  IF t.mode = "stream"
                    THEN Continue(p, "chat",
                             [s |-> session,
                              t |-> [t1 EXCEPT !.pc = "progress",
                                               !.emitted = Append(@, ProgressChunk(r))]])
                    ELSE Continue(p, "chat", BeginTools(t1))
           ELSE IF t.mode = "buffered"
           THEN Finish(p, "sendMessage", "returned", BufferedFinal(r),
                       AddCost(Push(session, Msg("assistant", BufferedFinal(r))), r), t)
           ELSE IF CanStream(r)
           THEN Continue(p, "chat",
                    [s |-> session, t |-> [t EXCEPT !.pc = "streamNext", !.streamPos = 0]])
           ELSE Continue(p, "chat",
                    [s |-> session,
                     t |-> [t EXCEPT !.pc = "final", !.finalContent = BufferedFinal(r),
                                     !.emitted = Append(@, BufferedFinal(r))]])

\* the awaited executeTool returns (or rejects, which ends the turn)
ToolReturns(p) ==
    LET t  == turns[p]
        tc == t.response.toolCalls[t.idx]
        x  == executeTool(tc)
        t1 == [t EXCEPT !.dispatched = @ + 1,
                        !.toolResults = Append(@, ToolResultLine(tc, x.value))]
    IN  /\ t.pc = "tool"
        /\ UNCHANGED <<config, client, collab, calls, resets, held>>
        /\ IF x.raised
           THEN Finish(p, OpOf(t), "raised", << >>, session,
                       [t EXCEPT !.dispatched = @ + 1])
           ELSE IF t.idx < Len(t.response.toolCalls)
           THEN Continue(p, "tool", [s |-> session, t |-> [t1 EXCEPT !.idx = @ + 1]])
           ELSE Continue(p, "tool", FinishRound(t1, t1.toolResults))

\* the end of the streaming variant: the final message and the cost
Drained(p, t) ==
    Finish(p, "sendMessageStream", "drained", Flatten(t.emitted),
           AddCost(Push(session, Msg("assistant", StreamedFinal(t))), t.response), t)

\* the consumer asks for the next chunk of a generator suspended at a yield
Pull(p) ==
    LET t == turns[p]
    IN  /\ t.pc \in {"progress", "chunk", "final"}
        /\ UNCHANGED <<config, client, collab, calls, resets, held>>
        /\ IF t.pc = "progress" THEN Continue(p, "pull", BeginTools(t))
           ELSE IF t.pc = "chunk"
           THEN Continue(p, "pull", [s |-> session, t |-> [t EXCEPT !.pc = "streamNext"]])
           ELSE Drained(p, t)

\* (mutant) each chunk is recorded in the history as it arrives
StreamNextRecordsChunks(p) ==
    LET t == turns[p]
    IN  /\ t.pc = "streamNext"
        /\ UNCHANGED <<config, client, collab, calls, resets, held>>
        /\ IF t.streamPos < Len(client.chunks)
           THEN LET c == client.chunks[t.streamPos + 1]
                IN  Continue(p, "chunk",
                        [s |-> Push(session, Msg("assistant", c)),
                         t |-> [t EXCEPT !.pc = "chunk", !.streamPos = @ + 1,
                                         !.finalContent = @ \o c,
                                         !.emitted = Append(@, c)]])
           ELSE Drained(p, t)

\* the adapter's streamChat delivers its next chunk, or ends
StreamNext(p) ==
    LET t == turns[p]
    IN  /\ t.pc = "streamNext"
        /\ UNCHANGED <<config, client, collab, calls, resets, held>>
        /\ IF t.streamPos < Len(client.chunks)
           THEN LET c == client.chunks[t.streamPos + 1]
                IN  Continue(p, "chunk",
                        [s |-> session,
                         t |-> [t EXCEPT !.pc = "chunk", !.streamPos = @ + 1,
                                         !.finalContent = @ \o c,
                                         !.emitted = Append(@, c)]])
           ELSE Drained(p, t)

\* the consumer stops pulling: the generator stays suspended at its yield
Abandon(p) ==
    LET t == turns[p]
    IN  /\ t.pc \in {"progress", "chunk", "final"}
        /\ UNCHANGED <<config, client, collab, calls, resets, held>>
        /\ Finish(p, "sendMessageStream", "abandoned", Flatten(t.emitted), session, t)

\* no ChatSession object is in a caller's hands
NoObject ==
    [kind |-> "none", shared |-> FALSE, was |-> NewSession(<< >>), kept |-> << >>,
     pushed |-> FALSE, n |-> 0]

\* the manager takes a new messages array: the caller's object keeps the old
\* one, with what was pushed onto it so far
Detached ==
    IF held.shared THEN [held EXCEPT !.shared = FALSE, !.kept = session.messages]
    ELSE held

\* the messages the caller's object shows now
HeldMessages == IF held.shared THEN session.messages ELSE held.kept

\* (mutant) the reset forgets to zero the cost
ResetKeepsCost == [NewSession(config.systemPrompt) EXCEPT !.totalCost = session.totalCost]
\* the session clearHistory installs
ResetSession == NewSession(config.systemPrompt)

CanReset(async) == IF async THEN resets < MaxAsyncResets ELSE InFlight = {}

clearHistory(async) ==
    /\ CanReset(async)
    /\ ev.op # "clearHistory"
    /\ resets' = IF async THEN resets + 1 ELSE resets
    /\ session' = ResetSession
    /\ held' = Detached
    /\ ev' = Event("clearHistory", 0, "returned", << >>, 0, BlankTurn)
    /\ UNCHANGED <<config, client, collab, turns, calls>>

\* sessions the storage may hand to loadSession
StoredSessions ==
    {[messages |-> <<Msg("system", <<"Saved prompt.">>), Msg("user", UserInput),
                     Msg("assistant", <<"Hello.">>)>>,
      turnCount |-> 1, totalCost |-> 3],
     [messages |-> << >>, turnCount |-> 20, totalCost |-> 60000]}

loadSession(async) ==
    /\ CanReset(async)
    /\ ev.op # "loadSession"
    /\ resets' = IF async THEN resets + 1 ELSE resets
    /\ \E stored \in StoredSessions : session' = stored
    /\ held' = Detached
    /\ ev' = Event("loadSession", 0, "returned", << >>, 0, BlankTurn)
    /\ UNCHANGED <<config, client, collab, turns, calls>>

\* loadSession with an object the caller keeps: this.session = {...session}
\* copies the fields, so the manager's messages is the caller's array
loadSessionKept ==
    /\ InFlight = {}
    /\ held.n < MaxHeld
    /\ \E stored \in StoredSessions :
          /\ session' = stored
          /\ held' = [kind |-> "loaded", shared |-> TRUE, was |-> stored,
                      kept |-> stored.messages, pushed |-> FALSE, n |-> held.n + 1]
    /\ ev' = Event("loadSession", 0, "returned", << >>, 0, BlankTurn)
    /\ UNCHANGED <<config, client, collab, turns, calls, resets>>

\* getSession: {...this.session} copies turnCount and totalCost and the
\* reference to the messages array
getSession ==
    /\ InFlight = {}
    /\ held.n < MaxHeld
    /\ held' = [kind |-> "snapshot", shared |-> TRUE, was |-> session,
                kept |-> session.messages, pushed |-> FALSE, n |-> held.n + 1]
    /\ ev' = Event("getSession", 0, "returned", << >>, 0, BlankTurn)
    /\ UNCHANGED <<config, session, client, collab, turns, calls, resets>>

\* the caller pushes a message onto the messages of the object it holds
CallerPushes ==
    /\ InFlight = {}
    /\ held.kind # "none"
    /\ ~held.pushed
    /\ LET m == Msg("user", <<"Written by the caller.">>)
       IN  /\ held' = [held EXCEPT !.pushed = TRUE,
                                   !.was.messages = Append(@, m),
                                   !.kept = IF held.shared THEN @ ELSE Append(@, m)]
           /\ session' = IF held.shared
                         THEN [session EXCEPT !.messages = Append(@, m)]
                         ELSE session
    /\ ev' = Event("callerPush", 0, "returned", << >>, 0, BlankTurn)
    /\ UNCHANGED <<config, client, collab, turns, calls, resets>>

\* ------------------------------------------------------------ environment
\* options given to the constructor (Absent: the option is left out)
Configs ==
    {[maxTurns |-> Absent, maxCostPerSession |-> Absent, systemPrompt |-> << >>],
     [maxTurns |-> 1, maxCostPerSession |-> 4, systemPrompt |-> << >>],
     [maxTurns |-> 2, maxCostPerSession |-> 6,
      systemPrompt |-> <<"You are a terse assistant.">>]}

Scripts ==
    {[rounds |-> n, tool |-> k.t, final |-> k.f] :
        n \in 0..(maxIterations + 1),
        k \in {[t |-> "pair", f |-> "answer"], [t |-> "unknown", f |-> "empty"],
               [t |-> "none", f |-> "error"]}}
    \cup {[rounds |-> 0, tool |-> "unknown", final |-> "pending"]}

\* streamChat's chunks for the final answer
ChunkScripts == {<< >>, << <<"$80">>, <<".50">> >>, << <<"Sure.">> >>}

Clients ==
    {[supportsStreaming |-> c.f, hasStreamChat |-> c.m, chunks |-> c.ch,
      script |-> sc, estPerMsg |-> e] :
        c \in {[f |-> FALSE, m |-> FALSE, ch |-> << >>],
               [f |-> TRUE, m |-> FALSE, ch |-> << >>]}
              \cup {[f |-> TRUE, m |-> TRUE, ch |-> ch] : ch \in ChunkScripts},
        sc \in Scripts, e \in 0..MaxEstPerMsg}

\* the repository's collaborators return a string or throw an Error
RepoCollaborators ==
    [get_token_price |-> "returns", get_sol_balance |-> "Error"]

\* collaborators that throw any value at all
AnyCollaborators ==
    {[RepoCollaborators EXCEPT !.get_sol_balance = does] :
        does \in {"Error", "string", "nullish"}}

\* options in which a ceiling is configured as 0
ZeroConfigs ==
    {[maxTurns |-> 0, maxCostPerSession |-> 0, systemPrompt |-> << >>],
     [maxTurns |-> 0, maxCostPerSession |-> 4, systemPrompt |-> << >>],
     [maxTurns |-> 1, maxCostPerSession |-> 0, systemPrompt |-> << >>]}

InitFor(cfgs, collabs, clients) ==
    /\ \E cfg \in cfgs : config = Configure(cfg)
    /\ session = NewSession(config.systemPrompt)
    /\ client \in clients
    /\ collab \in collabs
    /\ turns = [p \in Procs |-> IdleTurn]
    /\ calls = 0
    /\ resets = 0
    /\ held = NoObject
    /\ ev = Event("constructor", 0, "returned", << >>, 0, BlankTurn)

InitWith(collabs, clients) == InitFor(Configs, collabs, clients)

Init == InitWith({RepoCollaborators}, Clients)

Steps ==
    \E p \in Procs : ChatReturns(p) \/ ToolReturns(p) \/ Pull(p) \/ StreamNext(p) \/ Abandon(p)

\* the caller awaits every call; no session is loaded from storage
Next ==
    \/ SendMessage(1, FALSE)
    \/ SendMessageStream(1, FALSE)
    \/ Steps
    \/ clearHistory(FALSE)

Spec == Init /\ [][Next]_vars

\* the same caller, with sessions loaded from storage as well
NextLoad == Next \/ loadSession(FALSE)

ShortClients == {c \in Clients : c.script.rounds <= MaxShortRounds}
InitShort == InitWith({RepoCollaborators}, ShortClients)

SpecLoad == InitShort /\ [][NextLoad]_vars

\* the chat command's line handler: readline delivers the next line while
\* the handler of an earlier line is still awaiting its turn
NextAsync ==
    \/ \E p \in Procs : SendMessage(p, TRUE) \/ SendMessageStream(p, TRUE)
    \/ Steps
    \/ clearHistory(TRUE)
    \/ loadSession(TRUE)

SpecAsync == InitShort /\ [][NextAsync]_vars

\* overlapping sendMessage / sendMessageStream calls alone, switching at the
\* awaits and yields
NextOverlapping ==
    \/ \E p \in Procs : SendMessage(p, TRUE) \/ SendMessageStream(p, TRUE)
    \/ Steps

\* clients for the overlapping calls: with and without a tool round, buffered
\* and streamed, the estimate left at 0
OverlapClients ==
    {c \in Clients :
        /\ c.estPerMsg = 0
        /\ c.script \in {[rounds |-> 1, tool |-> "pair", final |-> "answer"],
                         [rounds |-> 0, tool |-> "unknown", final |-> "empty"]}
        /\ c.hasStreamChat => Len(c.chunks) = 2}

InitOverlapping == InitWith({RepoCollaborators}, OverlapClients)

SpecOverlapping == InitOverlapping /\ [][NextOverlapping]_vars

\* a caller that keeps the objects getSession returns and loadSession is given
NextHandedOut ==
    \/ Next
    \/ getSession
    \/ loadSessionKept
    \/ CallerPushes

SpecHandedOut == InitOverlapping /\ [][NextHandedOut]_vars

\* sessions constructed with every kind of option, a ceiling of 0 included
InitConfigured == InitFor(Configs \cup ZeroConfigs, {RepoCollaborators}, ShortClients)

SpecConfigured == InitConfigured /\ [][Next]_vars

\* sessions whose cost ceiling is within reach of a turn's reported usage
LowCostConfigs ==
    {[maxTurns |-> Absent, maxCostPerSession |-> 1, systemPrompt |-> << >>],
     [maxTurns |-> 2, maxCostPerSession |-> 3, systemPrompt |-> << >>]}

InitLowCost == InitFor(LowCostConfigs, {RepoCollaborators}, ShortClients)

SpecLowCost == InitLowCost /\ [][Next]_vars

\* collaborators outside the repository's: whatever value is thrown
InitAnyCollaborators == InitWith(AnyCollaborators, Clients)

SpecAnyCollaborators == InitAnyCollaborators /\ [][Next]_vars

\* ------------------------------------------- truncateToolResult, by itself
TvlValues ==
    {Tvl(n, l) : n \in 0..MaxNest, l \in {"absent", "zero", "num", "emptyArr", "nullLast"}}

ItemLists(cap) ==
    {NoItems} \cup {Items(n) : n \in {0, cap} \cup (cap + 1)..(cap + MaxExtraItems)}

\* result strings a collaborator may return
ToolResultInputs ==
    {JsonResult(tt, ts, cb, tok, tx, len) :
        tt \in TvlValues, ts \in {NoTvl, Tvl(1, "num"), Tvl(MaxNest, "zero")},
        cb \in BOOLEAN, tok \in ItemLists(MaxTokenItems),
        tx \in ItemLists(MaxTransactionItems), len \in {40, MaxTextChars + 1}}
    \cup {TextResult(len) : len \in {0, 40, MaxTextChars, MaxTextChars + 1, 2 * MaxTextChars}}

\* the session manager at rest
AtRest ==
    /\ config = Configure([maxTurns |-> Absent, maxCostPerSession |-> Absent,
                           systemPrompt |-> << >>])
    /\ session = NewSession(config.systemPrompt)
    /\ client = [supportsStreaming |-> FALSE, hasStreamChat |-> FALSE, chunks |-> << >>,
                 script |-> [rounds |-> 0, tool |-> "pair", final |-> "answer"],
                 estPerMsg |-> 0]
    /\ collab = RepoCollaborators
    /\ turns = [p \in Procs |-> IdleTurn]
    /\ calls = 0
    /\ resets = 0
    /\ held = NoObject

InitTruncate ==
    /\ AtRest
    /\ \E r \in ToolResultInputs :
          ev = [op |-> "toolResult", input |-> r, pre |-> r, value |-> r, applications |-> 0]

\* result = this.truncateToolResult(result)
Truncate ==
    /\ ev.op \in {"toolResult", "truncateToolResult"}
    /\ ev.applications < MaxApplications
    /\ ev' = [ev EXCEPT !.op = "truncateToolResult", !.pre = ev.value,
                        !.value = truncateToolResult(ev.value), !.applications = @ + 1]
    /\ UNCHANGED <<config, session, client, collab, turns, calls, resets, held>>

SpecTruncate == InitTruncate /\ [][Truncate]_vars

\* ------------------------------------------ the adapters' estimateCost
\* A history is the sequence of its messages' content.split(' ').length (at
\* least 1 each).  Rates are in thousandths of a dollar per million tokens
\* and the estimate in 10^-9 dollars, so the arithmetic is exact; floating
\* point rounds each operation monotonically, which keeps every <= below.
RECURSIVE WordsOfAll(_)
WordsOfAll(h) == IF h = << >> THEN 0 ELSE Head(h) + WordsOfAll(Tail(h))
\* (mutant) only the newest message is counted
WordsOfLast(h) == IF h = << >> THEN 0 ELSE h[Len(h)]
\* messages.reduce((sum, m) => sum + m.content.split(' ').length, 0)
Words(h) == WordsOfAll(h)

\* Math.ceil(words * 1.3)
Tokens(words) == (13 * words + 9) \div 10

NoRates == [input |-> 0, output |-> 0]
OpenAIPricing ==
    [openai |-> [input |-> 2500, output |-> 10000],
     groq   |-> [input |-> 50, output |-> 80],
     ollama |-> NoRates]
AnthropicRates == [input |-> 3000, output |-> 15000]
GoogleRates == [input |-> 75, output |-> 300]

\* an adapter: its class and the provider it was constructed for
Adapters ==
    {[class |-> "OpenAIAdapter", provider |-> pr] : pr \in {"openai", "groq", "ollama", "google"}}
    \cup {[class |-> "AnthropicAdapter", provider |-> "anthropic"],
          [class |-> "GoogleAdapter", provider |-> "google"]}

RatesOf(a) ==
    IF a.class = "AnthropicAdapter" THEN AnthropicRates
    ELSE IF a.class = "GoogleAdapter" THEN GoogleRates
    ELSE IF a.provider \in DOMAIN OpenAIPricing THEN OpenAIPricing[a.provider]
    ELSE NoRates

\* ((tokens * input) / 1_000_000) + ((tokens * output) / 1_000_000)
AdapterEstimateCost(a, h) ==
    Tokens(Words(h)) * RatesOf(a).input + Tokens(Words(h)) * RatesOf(a).output

InitEstimate ==
    /\ AtRest
    /\ \E a \in Adapters :
          ev = [op |-> "estimateCost", adapter |-> a, history |-> << >>,
                shorter |-> AdapterEstimateCost(a, << >>),
                value |-> AdapterEstimateCost(a, << >>)]

\* estimateCost([...history, message])
EstimateLonger ==
    /\ ev.op = "estimateCost"
    /\ Len(ev.history) < MaxHistory
    /\ \E w \in 1..MaxWords :
          LET h == Append(ev.history, w)
          IN  ev' = [ev EXCEPT !.history = h,
                               !.shorter = AdapterEstimateCost(ev.adapter, ev.history),
                               !.value = AdapterEstimateCost(ev.adapter, h)]
    /\ UNCHANGED <<config, session, client, collab, turns, calls, resets, held>>

SpecEstimate == InitEstimate /\ [][EstimateLonger]_vars

\* ------------------------------------------------ sendTelegramAlertTool
\* the length the tool compares the trimmed message with
MaxMessageChars == 4000

\* chat_id as the dispatcher passes it (args.chat_id): absent, "123456789",
\* "@username" or "abc123"
ChatIds == {"absent", "numeric", "username", "malformed"}
\* validateTelegramChatId(chat_id).valid
validateTelegramChatId(c) == c \in {"numeric", "username"}

\* message: absent (args.message undefined) or a string, by its trimmed length
TelegramMessages ==
    {[defined |-> FALSE, trimmedLen |-> 0]}
    \cup {[defined |-> TRUE, trimmedLen |-> n] : n \in {0, 1, MaxMessageChars, MaxMessageChars + 1}}

\* the own keys of severityEmojis, and a key every object literal inherits
OwnSeverities == {"info", "warning", "critical"}
InheritedKeys == {"constructor"}
Severities == {"absent", "urgent"} \cup OwnSeverities \cup InheritedKeys
\* the default parameter value
SeverityOrDefault(sev) == IF sev = "absent" THEN "info" ELSE sev
\* severityEmojis[severity] is truthy
HasEmoji(sev) == sev \in OwnSeverities \cup InheritedKeys

\* what fetch and the response do
NetworkOutcomes ==
    {"ok", "okWithoutResult", "httpError", "httpErrorNoBody", "aborted", "refused", "failed"}

TelegramInputs ==
    [chat_id : ChatIds, message : TelegramMessages, severity : Severities,
     token : BOOLEAN, network : NetworkOutcomes]

ToolError(text, requested) ==
    [kind |-> "return", requested |-> requested, error |-> TRUE, text |-> text]
ToolThrows(text) == [kind |-> "throw", requested |-> FALSE, error |-> FALSE, text |-> text]

\* the try block around fetch
SendRequest(net) ==
    IF net = "ok"
    THEN [kind |-> "return", requested |-> TRUE, error |-> FALSE, text |-> "success"]
    ELSE IF net = "okWithoutResult" THEN ToolError("Invalid response from Telegram API", TRUE)
    ELSE IF net = "httpError" THEN ToolError("Telegram API error: description", TRUE)
    ELSE IF net = "httpErrorNoBody" THEN ToolError("Telegram API error: HTTP status", TRUE)
    ELSE IF net = "aborted"
    THEN ToolError("Telegram API request timed out after 5 seconds", TRUE)
    ELSE IF net = "refused" THEN ToolError("Cannot connect to Telegram API", TRUE)
    ELSE ToolError("Failed to send Telegram message", TRUE)

sendTelegramAlertTool(i) ==
    LET severity == SeverityOrDefault(i.severity)
    IN  IF ~validateTelegramChatId(i.chat_id)
        THEN ToolError("No or invalid Telegram chat ID", FALSE)
        \* message.trim() of undefined, outside every try block
        ELSE IF ~i.message.defined THEN ToolThrows("TypeError")
        ELSE IF i.message.trimmedLen = 0 THEN ToolError("No message provided.", FALSE)
        ELSE IF i.message.trimmedLen > MaxMessageChars
        THEN ToolError("Message exceeds Telegram's 4096 character limit.", FALSE)
        ELSE IF ~i.token THEN ToolError("TELEGRAM_BOT_TOKEN environment variable is not set.", FALSE)
        ELSE IF ~HasEmoji(severity) THEN ToolError("Invalid severity level", FALSE)
        ELSE SendRequest(i.network)

InitTelegram ==
    /\ AtRest
    /\ \E i \in TelegramInputs : ev = [op |-> "toolCall", input |-> i]

\* result = await sendTelegramAlertTool(args.chat_id, args.message, args.severity)
SendTelegramAlert ==
    /\ ev.op = "toolCall"
    /\ ev' = [op |-> "sendTelegramAlertTool", input |-> ev.input,
              result |-> sendTelegramAlertTool(ev.input)]
    /\ UNCHANGED <<config, session, client, collab, turns, calls, resets, held>>

SpecTelegram == InitTelegram /\ [][SendTelegramAlert]_vars

\* ================================================================ claims
\* the step just taken was a call's admission decision
IsCall(e) == e.outcome \in {"accepted", "turnLimit", "costLimit"}
Unchanged(e) == session = e.pre

\* C1 (turn ceiling): a sendMessage call made when turnCount >= maxTurns raises
\* the turn-limit error and leaves messages, turnCount and totalCost as they were.
C1_TurnCeiling ==
    (ev.op = "sendMessage" /\ IsCall(ev) /\ ev.pre.turnCount >= config.maxTurns)
        => (ev.outcome = "turnLimit" /\ Unchanged(ev))

\* the scenario: maxTurns = 1, one turn accepted, the second call is refused
C1_Witness ==
    /\ ev.op = "sendMessage" /\ ev.outcome = "turnLimit"
    /\ config.maxTurns = 1 /\ calls = 2
    /\ session.turnCount = 1 /\ Len(session.messages) > 1

\* C2 (cost ceiling): below the turn ceiling, sendMessage accepts the turn iff
\* totalCost + estimate <= maxCostPerSession (the boundary is accepted), and a
\* rejected call changes nothing.
C2_CostCeiling ==
    (ev.op = "sendMessage" /\ IsCall(ev) /\ ev.pre.turnCount < config.maxTurns)
        => /\ (ev.outcome = "accepted")
                <=> (ev.pre.totalCost + ev.est <= config.maxCostPerSession)
           /\ ev.outcome # "accepted" => (ev.outcome = "costLimit" /\ Unchanged(ev))

\* a turn accepted exactly at the ceiling, with cost already accumulated
C2_Witness ==
    /\ ev.op = "sendMessage" /\ ev.outcome = "accepted"
    /\ ev.pre.totalCost > 0 /\ ev.est > 0
    /\ ev.pre.totalCost + ev.est = config.maxCostPerSession

\* C3 (tool loop termination): when every chat response of a sendMessage turn
\* carries tool calls, the turn makes exactly 5 tool rounds and 6 chat calls,
\* does not dispatch the tool calls of the 6th response, and returns the last
\* response's content or the completion notice; no turn ever goes beyond 5
\* rounds or 6 chat calls.
C3_ToolLoopTerminates ==
    /\ \A p \in InFlight :
          /\ turns[p].iterations <= maxIterations
          /\ turns[p].chats <= turns[p].iterations + 1
          /\ (turns[p].pc \in {"tool", "progress"} => turns[p].chats = turns[p].iterations)
    /\ (ev.op = "sendMessage" /\ ~IsCall(ev) /\ ev.allTools /\ ev.chats > maxIterations)
          => /\ ev.outcome = "returned"
             /\ ev.iterations = 5 /\ ev.chats = 6
             /\ ev.dispatched = 5 * Len(ev.response.toolCalls)
             /\ ev.value = OrElse(ev.response.content, CompletionNotice)
             /\ session.messages[Len(session.messages)] = Msg("assistant", ev.value)
    /\ (ev.op = "sendMessage" /\ ev.outcome = "returned" /\ ev.allTools)
          => ev.chats = 6

\* a turn that hit the ceiling with an empty last response: the notice is returned
C3_Witness ==
    /\ ev.op = "sendMessage" /\ ev.outcome = "returned" /\ ev.allTools
    /\ ev.iterations = 5 /\ ev.chats = 6 /\ ev.dispatched = 5
    /\ ev.response.hasToolCalls /\ ev.value = CompletionNotice

\* the stub's streamChat, where it has one, streams the text sendMessage returns
\* and a response of it that has toolCalls names at least one tool
WellFormedStub ==
    /\ client.script.tool # "none"
    /\ (client.supportsStreaming /\ client.hasStreamChat)
          => Flatten(client.chunks) = BufferedFinal(FinalResponses[client.script.final])

\* C4 (streaming/buffered equivalence): the chunks of a fully drained
\* sendMessageStream(x) concatenate to what sendMessage(x) returns from the
\* same state with the same stub, tool-requesting turns included.
C4_StreamEqualsBuffered ==
    (ev.op = "sendMessageStream" /\ ev.outcome = "drained" /\ WellFormedStub)
        => ev.value = BufferedFinal(ev.response)

\* C5 (abandoned stream): a stream the consumer stops pulling leaves messages,
\* turnCount and totalCost as they were before the turn began.
C5_AbandonedStreamLeavesNoTrace ==
    ev.outcome = "abandoned" => session = ev.start

\* C6 (no interleaving): a call is admitted, and its user message and turn
\* count recorded, only when no earlier turn is still in progress.
C6_OneTurnAtATime ==
    (IsCall(ev) /\ ev.outcome = "accepted") => InFlight = {ev.p}

\* C7 (clearHistory reset): when clearHistory returns, messages is just the
\* system message, turnCount = 0 and totalCost = 0, whatever came before.
C7_ClearHistoryResets ==
    ev.op = "clearHistory"
        => /\ Len(session.messages) = 1
           /\ session.messages[1] = SystemMessage
           /\ session.turnCount = 0
           /\ session.totalCost = 0

\* clearHistory after a stored session was loaded and a turn added to it
C7_Witness ==
    /\ ev.op = "clearHistory"
    /\ Len(ev.pre.messages) > 3 /\ ev.pre.messages[1] # SystemMessage
    /\ ev.pre.turnCount > 1 /\ ev.pre.totalCost > 0

\* C8 (history invariant): messages[0] is always the system message of the
\* constructor, and every step but clearHistory keeps the previous messages as
\* a prefix of the new ones.
C8_HistoryAppendOnly ==
    /\ Len(session.messages) >= 1
    /\ session.messages[1] = SystemMessage
    /\ ev.op # "clearHistory" => IsPrefix(ev.pre.messages, session.messages)

\* a tool round has just appended its two messages to a history of earlier turns
C8_Witness ==
    /\ ev.op = "tool" /\ ev.pre.turnCount = 2
    /\ Len(session.messages) = Len(ev.pre.messages) + 2
    /\ Len(ev.pre.messages) > 3

\* C9 (turn counter): turnCount never exceeds maxTurns, grows by exactly 1 on
\* each accepted turn, and no step but clearHistory lowers it.
C9_TurnCounter ==
    /\ session.turnCount <= config.maxTurns
    /\ (IsCall(ev) /\ ev.outcome = "accepted")
          => session.turnCount = ev.pre.turnCount + 1
    /\ (ev.op # "clearHistory" /\ ~(IsCall(ev) /\ ev.outcome = "accepted"))
          => session.turnCount = ev.pre.turnCount

\* the last admissible turn has just been accepted by the streaming variant
C9_Witness ==
    /\ ev.op = "sendMessageStream" /\ ev.outcome = "accepted"
    /\ session.turnCount = config.maxTurns /\ config.maxTurns = 2

\* C10 (dispatcher totality): executeTool never raises, so no dispatch ends a
\* turn with an exception, whatever value the collaborator throws.
C10_DispatcherNeverRaises ==
    /\ ev.outcome # "raised"
    /\ \A p \in Procs :
          turns[p].pc = "tool" =>
              ~executeTool(turns[p].response.toolCalls[turns[p].idx]).raised

\* C11 (truncation idempotence): truncating a truncated tool result changes
\* nothing: truncateToolResult(truncateToolResult(x)) = truncateToolResult(x).
C11_TruncateIdempotent ==
    (ev.op = "truncateToolResult" /\ ev.applications >= 1)
        => Stringify(truncateToolResult(ev.value)) = Stringify(ev.value)

\* the messages appended since the turn of the last step began
TurnMessages == SubSeq(session.messages, Len(ev.start.messages) + 1, Len(session.messages))

\* the tool names a tool-results message lists, in order
ToolsListed(m) ==
    LET at == {i \in DOMAIN m.content : m.content[i] = "Tool: "}
        nth[i \in 1..Cardinality(at)] ==
            CHOOSE j \in at : Cardinality({h \in at : h < j}) = i - 1
    IN  [i \in 1..Cardinality(at) |-> m.content[nth[i] + 1]]

\* C12 (per-turn history shape): a completed sendMessage turn with k tool rounds
\* has appended exactly 2k+2 messages: the user message, k pairs of an
\* assistant tool-use message and one message with all tool results of that
\* response, then the final assistant message, whose content is the value
\* returned (the final response's content when it has any).
C12_TurnShape ==
    (ev.op = "sendMessage" /\ ev.outcome = "returned" /\ client.script.tool # "none")
        => LET k == ev.iterations
               m == TurnMessages
               calls_ == ToolResponses[client.script.tool].toolCalls
           IN  /\ k <= maxIterations
               /\ Len(m) = 2 * k + 2
               /\ m[1] = Msg("user", UserInput)
               /\ \A i \in 1..k :
                     /\ m[2 * i].role = "assistant"
                     /\ IsToolResults(m[2 * i + 1])
                     /\ ToolsListed(m[2 * i + 1]) = [j \in 1..Len(calls_) |-> calls_[j].name]
               /\ m[2 * k + 2] = Msg("assistant", ev.value)
               /\ ev.response.content # << >> => ev.value = ev.response.content

\* the price question: one tool round, then "$80.50"
C12_Witness ==
    /\ ev.op = "sendMessage" /\ ev.outcome = "returned"
    /\ ev.iterations = 1 /\ ev.value = <<"$80", ".50">>
    /\ Len(TurnMessages) = 4 /\ IsToolResults(TurnMessages[3])
    /\ Len(ToolsListed(TurnMessages[3])) = 2

\* C13 (admission precedes provider activity): a call rejected with the
\* turn-limit or cost-limit error has made no chat or streamChat call, has
\* dispatched no tool and, in the streaming variant, has emitted no chunk.
C13_RejectedBeforeProvider ==
    (IsCall(ev) /\ ev.outcome \in {"turnLimit", "costLimit"})
        => /\ ev.chats = 0 /\ ev.dispatched = 0 /\ ev.iterations = 0
           /\ ev.value = << >>
           /\ ev.p \notin InFlight

\* the streaming variant refused for cost after an earlier turn used tools
C13_Witness ==
    /\ ev.op = "sendMessageStream" /\ ev.outcome = "costLimit"
    /\ session.turnCount >= 1 /\ session.totalCost > 0
    /\ \E i \in DOMAIN session.messages : IsToolResults(session.messages[i])

\* the assistant message a turn ended by a provider error leaves in the history
ErrorMessage == Msg("assistant", FinalResponses.error.content)
LastMessage(s) == s.messages[Len(s.messages)]

\* C14 (provider errors are data): when chat returns finishReason = "error"
\* without tool calls, sendMessage returns that content without raising,
\* appends exactly one assistant message carrying it, leaves no turn in
\* progress, and the next call is admitted under the usual ceilings.
C14_ProviderErrorIsData ==
    /\ (ev.op = "sendMessage" /\ ~IsCall(ev) /\ ev.response.finishReason = "error"
            /\ ~ev.response.hasToolCalls)
          => /\ ev.outcome = "returned"
             /\ ev.value = ev.response.content
             /\ session.messages = Append(ev.pre.messages, Msg("assistant", ev.value))
             /\ session.turnCount = ev.pre.turnCount
             /\ InFlight = {}
    /\ (IsCall(ev) /\ LastMessage(ev.pre) = ErrorMessage
            /\ ev.pre.turnCount < config.maxTurns
            /\ ev.pre.totalCost + ev.est <= config.maxCostPerSession)
          => ev.outcome = "accepted"

\* a turn has ended with the provider's error and the next turn is accepted
C14_Witness ==
    /\ ev.op = "sendMessage" /\ ev.outcome = "accepted"
    /\ LastMessage(ev.pre) = ErrorMessage
    /\ Len(ev.pre.messages) = 3 /\ ev.pre.turnCount = 1

NamesOf(toolCalls) == [j \in 1..Len(toolCalls) |-> toolCalls[j].name]

\* the step just taken closed a tool round (pushed its two messages)
RoundClosed ==
    /\ ev.op \in {"chat", "tool", "pull"}
    /\ Len(session.messages) = Len(ev.pre.messages) + 2

\* C15 (sequential dispatch): the tool calls of one response are dispatched one
\* at a time in response order (while call i is awaited exactly the results of
\* calls 1..i-1 exist, in order, and no chat call has been made for the next
\* round), and the single tool-results message lists them in that order.
C15_SequentialDispatch ==
    /\ \A p \in InFlight :
          turns[p].pc = "tool" =>
              LET t == turns[p]
              IN  /\ t.idx \in 1..Len(t.response.toolCalls)
                  /\ Len(t.toolResults) = t.idx - 1
                  /\ \A i \in 1..(t.idx - 1) :
                        SubSeq(t.toolResults[i], 1, 2) = <<"Tool: ", t.response.toolCalls[i].name>>
                  /\ t.chats = t.iterations
    /\ RoundClosed
          => /\ IsToolResults(LastMessage(session))
             /\ ToolsListed(LastMessage(session)) = NamesOf(ev.response.toolCalls)
             /\ session.messages[Len(session.messages) - 1].role = "assistant"
             /\ ev.chats = ev.iterations + 1

\* two tool calls of one response have been dispatched and their round closed
C15_Witness ==
    /\ RoundClosed /\ ev.op = "tool"
    /\ ToolsListed(LastMessage(session)) = <<"get_token_price", "get_sol_balance">>
    /\ ev.dispatched = 2

\* the adapter has the streaming capability: the flag and the method
Capable == client.supportsStreaming /\ client.hasStreamChat

\* the chunks a streaming turn has emitted after its progress chunks
FinalChunks(t) == SubSeq(t.emitted, t.iterations + 1, Len(t.emitted))

StreamingTurns == {p \in InFlight : turns[p].mode = "stream"}

\* C16 as stated: the one-chunk fallback is taken exactly when the adapter
\* lacks the capability or the last response's finishReason is tool_use after
\* the iteration ceiling was hit.
C16_FallbackOnlyAtCeiling ==
    \A p \in StreamingTurns :
        turns[p].pc = "final"
            => \/ ~Capable
               \/ /\ turns[p].response.finishReason = "tool_use"
                  /\ turns[p].iterations = maxIterations

\* C16 (streaming fallback, amended): the final content is emitted as exactly
\* one chunk (the last response's content or the completion notice) without
\* streamChat being invoked whenever the adapter lacks the capability or the
\* last response's finishReason is tool_use, ceiling hit or not; otherwise
\* the chunks emitted after the tool loop are those of streamChat, in order.
C16_StreamingFallback ==
    \A p \in StreamingTurns :
        LET t == turns[p]
            fallback == ~Capable \/ t.response.finishReason = "tool_use"
        IN  /\ t.pc = "final"
                  => /\ fallback /\ t.streamPos = 0
                     /\ FinalChunks(t) = <<OrElse(t.response.content, CompletionNotice)>>
            /\ t.pc \in {"streamNext", "chunk"}
                  => /\ ~fallback
                     /\ FinalChunks(t) = SubSeq(client.chunks, 1, t.streamPos)

\* a streaming adapter whose turn hit the ceiling: the last response still asks
\* for tools and its content goes out as one chunk
C16_Witness ==
    \E p \in StreamingTurns :
        /\ turns[p].pc = "final" /\ Capable
        /\ turns[p].iterations = maxIterations
        /\ turns[p].response.finishReason = "tool_use"
        /\ FinalChunks(turns[p]) = <<<<"Let me check.">>>>

\* C17 (estimateCost): for every adapter, the estimate of a history is never
\* negative and never smaller than the estimate of the history without its last
\* message.
C17_EstimateMonotonic ==
    ev.op = "estimateCost" => (ev.shorter >= 0 /\ ev.value >= ev.shorter)

\* a priced adapter: a longer history costs strictly more
C17_Witness ==
    /\ ev.op = "estimateCost" /\ Len(ev.history) = MaxHistory
    /\ ev.adapter.provider = "groq"
    /\ ev.history[Len(ev.history)] = 1
    /\ ev.value > ev.shorter /\ ev.shorter > 0

\* the text holds the message of a raw exception
HoldsRawFailure(text) == \E i \in DOMAIN text : text[i] = RawFailure

\* C18 (error sanitization): no text of a raw exception raised in a tool
\* collaborator or a provider adapter is in any session message or in what
\* sendMessage / sendMessageStream hand to their caller.
C18_NoRawErrorText ==
    /\ \A i \in DOMAIN session.messages : ~HoldsRawFailure(session.messages[i].content)
    /\ ev.outcome \in {"returned", "drained", "abandoned"} => ~HoldsRawFailure(ev.value)

\* the input passes every check the claim lists
TelegramInputOk(i) ==
    /\ validateTelegramChatId(i.chat_id)
    /\ i.message.defined /\ i.message.trimmedLen \in 1..MaxMessageChars
    /\ i.token
    /\ SeverityOrDefault(i.severity) \in {"info", "warning", "critical"}

\* C19 (Telegram send is guarded): a request is issued only for a valid chat
\* id, a non-empty trimmed message within the limit, a set bot token and a
\* severity of info / warning / critical; every other input gets an {error}
\* string with no request; the tool always returns a string, never throws.
C19_TelegramGuarded ==
    ev.op = "sendTelegramAlertTool"
        => /\ ev.result.kind = "return"
           /\ ev.result.requested => TelegramInputOk(ev.input)
           /\ ~TelegramInputOk(ev.input) => (ev.result.error /\ ~ev.result.requested)

\* C20 (configured ceilings are enforced as given): a ceiling configured as a
\* number, 0 included, is the ceiling in force: with maxTurns configured as N
\* the session never counts more than N turns since the last reset, and with
\* maxCostPerSession configured as M no call with totalCost + estimate > M is
\* accepted.
C20_ConfiguredCeilingsEnforced ==
    /\ config.given.maxTurns # Absent
          => session.turnCount <= config.given.maxTurns
    /\ (config.given.maxCostPerSession # Absent /\ IsCall(ev)
            /\ ev.pre.totalCost + ev.est > config.given.maxCostPerSession)
          => ev.outcome # "accepted"

\* C21 (tool sub-loop entry): a tool round is run only for a response that
\* carries at least one tool call; a response whose toolCalls is absent or an
\* empty list ends the turn: no progress chunk, no assistant / tool-results
\* pair and no further chat call for it.
C21_RoundOnlyForToolCalls ==
    /\ \A p \in InFlight :
          turns[p].pc \in {"progress", "tool"} => turns[p].response.toolCalls # << >>
    /\ RoundClosed => ev.response.toolCalls # << >>

\* the step just taken completed a turn
TurnCompleted ==
    ev.op \in {"sendMessage", "sendMessageStream"} /\ ev.outcome \in {"returned", "drained"}

\* C22 (cost accounting per turn): a completed turn adds to totalCost exactly
\* the cost of its final response's reported tokens, and nothing when that
\* response reports no usage; the usage of the tool-loop responses before it
\* adds nothing; no step other than clearHistory or loadSession lowers totalCost.
C22_CostPerTurn ==
    /\ TurnCompleted
          => /\ session.totalCost = ev.start.totalCost
                    + (IF ev.response.hasUsage THEN ev.response.totalTokens ELSE 0)
             /\ ev.pre.totalCost = ev.start.totalCost
    /\ (~TurnCompleted /\ ev.op \notin {"clearHistory", "loadSession"})
          => session.totalCost = ev.pre.totalCost
    /\ ev.op \notin {"clearHistory", "loadSession"} => session.totalCost >= ev.pre.totalCost

\* a turn whose tool-loop response reported usage and whose final response did not
C22_Witness ==
    /\ ev.op = "sendMessage" /\ TurnCompleted /\ ev.iterations = 2
    /\ ToolResponses[client.script.tool].hasUsage /\ ~ev.response.hasUsage
    /\ session.totalCost = ev.start.totalCost

\* the _truncated note the claim asks for: shown out of existed
FaithfulNote(shown, existed, what) ==
    <<"Showing first " \o ToString(shown) \o " of ", ToString(existed), what>>

\* C23 (array cap with faithful annotation): of a structured result with more
\* than 10 tokens (more than 5 transactions) truncateToolResult keeps exactly
\* the first 10 (5) items in order and sets a _truncated note that states the
\* number shown and the number that existed.
C23_CapWithFaithfulNote ==
    (ev.op = "truncateToolResult" /\ ev.applications = 1 /\ ev.input.kind = "json")
        => LET tok == ev.input.tokens.items
               tx  == ev.input.transactions.items
           IN  /\ Len(tx) > MaxTransactionItems
                     => /\ ev.value.transactions.items = SubSeq(tx, 1, MaxTransactionItems)
                        /\ ev.value.truncated
                              = FaithfulNote(MaxTransactionItems, Len(tx), " transactions")
               /\ Len(tok) > MaxTokenItems
                     => /\ ev.value.tokens.items = SubSeq(tok, 1, MaxTokenItems)
                        /\ Len(tx) <= MaxTransactionItems
                              => ev.value.truncated
                                    = FaithfulNote(MaxTokenItems, Len(tok), " tokens")

IsSuffix(s, t) == Len(s) <= Len(t) /\ SubSeq(t, Len(t) - Len(s) + 1, Len(t)) = s

\* the text of all the chunks that carry the final content of a turn whose
\* last response is r
AllFinalChunks(r) ==
    IF Capable /\ r.finishReason # "tool_use" THEN Flatten(client.chunks)
    ELSE OrElse(r.content, CompletionNotice)

\* C24 (final message committed after full drain): while a sendMessageStream
\* turn is in progress or has been abandoned, the history ends with a user
\* or tool-results message and totalCost is what it was when the turn began;
\* the final assistant message and the cost are written by the step that ends
\* the stream, after every chunk was emitted.
C24_CommitAfterDrain ==
    /\ \A p \in StreamingTurns :
          /\ LastMessage(session).role = "user"
          /\ session.totalCost = turns[p].start.totalCost
    /\ ev.outcome = "abandoned"
          => (LastMessage(session).role = "user" /\ session.totalCost = ev.start.totalCost)
    /\ ev.outcome = "drained"
          => /\ LastMessage(ev.pre).role = "user"
             /\ Len(session.messages) = Len(ev.pre.messages) + 1
             /\ LastMessage(session).role = "assistant"
             /\ IsSuffix(AllFinalChunks(ev.response), ev.value)

\* one of two chunks has been handed to the consumer, after a tool round
C24_Witness ==
    \E p \in StreamingTurns :
        /\ turns[p].pc = "chunk" /\ turns[p].streamPos = 1 /\ Len(client.chunks) = 2
        /\ turns[p].iterations = 1
        /\ IsToolResults(LastMessage(session))

\* C25: accumulated cost stays under the ceiling: in every state reached
\* through sendMessage, sendMessageStream and clearHistory the session's
\* totalCost is at most the configured maxCostPerSession
C25_CostWithinCeiling ==
    session.totalCost <= config.maxCostPerSession

\* C26: however concurrently invoked sendMessage and sendMessageStream calls
\* interleave at their awaits and yields, turnCount never exceeds maxTurns:
\* a call's turn check and its increment run without a suspension between
\* them, so a call made while other turns are suspended sees their counts
C26_TurnCeilingUnderInterleaving ==
    /\ session.turnCount <= config.maxTurns
    /\ (IsCall(ev) /\ ev.outcome = "accepted") => ev.pre.turnCount < config.maxTurns

\* a call is turned away at the ceiling while an earlier turn is suspended
C26_Witness ==
    /\ ev.outcome = "turnLimit"
    /\ InFlight # {}
    /\ session.turnCount = config.maxTurns

\* C27: a reset is not undone by a turn in flight: when clearHistory or
\* loadSession ran while a turn was suspended at a provider or tool call and
\* that turn then finishes, the session is still what the reset established
\* (no message and no cost of the earlier turn is added to it)
C27_ResetNotUndone ==
    [][(/\ ev.op \in {"clearHistory", "loadSession"}
        /\ ev'.op \in {"sendMessage", "sendMessageStream"}
        /\ ev'.outcome \in {"returned", "drained"})
       => session' = session]_vars

\* the messages after the leading system message go user, assistant, user,
\* assistant, ..., ending with an assistant message
Alternates(msgs) ==
    /\ Len(msgs) % 2 = 1
    /\ \A i \in 2..Len(msgs) :
          msgs[i].role = (IF i % 2 = 0 THEN "user" ELSE "assistant")

\* C28: role alternation: whenever no turn is in progress, after any sequence
\* of sendMessage, sendMessageStream (drained or abandoned) and clearHistory
\* calls, the messages after the system message strictly alternate user,
\* assistant, beginning with a user and ending with an assistant message
C28_RolesAlternate ==
    InFlight = {} => Alternates(session.messages)

\* C29: session value isolation: the ChatSession object returned by getSession
\* and the one passed to loadSession keep the messages the caller saw or put
\* there, whatever the manager does afterwards; and a push by the caller onto
\* such an object leaves the manager's session as it was
C29_SessionValueIsolated ==
    /\ held.kind # "none" => HeldMessages = held.was.messages
    /\ ev.op = "callerPush" => session = ev.pre

\* C30: recorded equals delivered: after a fully drained sendMessageStream the
\* content of the final assistant message in the history is the concatenation
\* of the final-response chunks delivered to the consumer, also when
\* streamChat yields no chunks
C30_RecordedEqualsDelivered ==
    ev.outcome = "drained" =>
        /\ IsSuffix(AllFinalChunks(ev.response), ev.value)
        /\ LastMessage(session).content = AllFinalChunks(ev.response)

====
